---- MODULE Spec2Model ----
(***************************************************************************)
(* DataStream: a typed, endianness-aware stream over a borrowed byte       *)
(* buffer or an fstream (DataStream.hpp), and the fixed-point quantizer    *)
(* (FixedPointQuantizer.hpp).                                              *)
(*                                                                         *)
(* A value of a k-byte arithmetic type is modelled by its bit pattern, the *)
(* unsigned integer 0 .. 256^k - 1.  An object of that type in memory is   *)
(* the sequence of its k bytes in the host's native order.                 *)
(***************************************************************************)
EXTENDS Integers, Sequences, FiniteSets, TLC

VARIABLES
    native,      \* std::endian::native of the build: "little" or "big"
    mode,        \* per stream: the template parameter mode
    endiannes,   \* per stream: the template parameter endiannes
    st,          \* per stream: data.size(), underlying_data, file_stream, index
    buf,         \* the caller's container the buffer-backed streams view
    file,        \* the caller's std::fstream
    cout,        \* the format state of the process-wide std::cout
    last,        \* the last call made and what it returned or threw
    seqsum,      \* per stream: sum of sizeof(T) over its successful << and >>
    written,     \* per offset: the value last stored there and still intact
    track,       \* whether written is kept up to date
    sequenced,   \* per offset: the value << stored there, and whether its bytes are intact
    q,           \* the quantizer: its template parameters and its two bounds
    qlast        \* the last quantizer call and its result

vars == <<native, mode, endiannes, st, buf, file, cout, last, seqsum, written, track,
          sequenced, q, qlast>>

streamVars == <<native, mode, endiannes, st, buf, file, cout, last, seqsum, written, track,
                sequenced>>
quantVars == <<q, qlast>>

----------------------------------------------------------------------------
(* Bounds of the model *)

\* Number of bytes of the caller's container.
Cap == 4

\* Width in bits of std::size_t in the model.
SizeBits == 16

\* Largest number of bytes the file can hold before a write fails.
MaxFile == 2

SizeMod == 2 ^ SizeBits
SIZE_MAX == SizeMod - 1

Streams == {1, 2}

\* sizeof(T) of the arithmetic types used: 8-, 16- and 32-bit.
Sizes == {1, 2, 4}

\* The bit patterns written, per size.
ValuesOf(k) ==
    CASE k = 1 -> {16 * 7 + 10}                                \* 0x7A
      [] k = 2 -> {(16 * 1 + 11) * 256 + (16 * 2 + 12)}        \* 0x1B2C
      [] k = 4 -> {((1 * 256 + 2) * 256 + 3) * 256 + 4}        \* 0x01020304

\* The offsets handed to set and get: the first byte, the last byte, and the
\* largest std::size_t.
Offsets == {0, Cap - 1, SIZE_MAX}

\* The delimiters handed to string().
Delimiters == {<<>>, <<" ">>}

----------------------------------------------------------------------------
(* Mode and endianness *)

Input == 1
Output == 2

\* mode & flag == flag, for the two one-bit flags.
HasFlag(m, flag) == (m \div flag) % 2 = 1

Endians == {"little", "big"}

----------------------------------------------------------------------------
(* Values, objects and byte swapping *)

Reverse(s) == [i \in 1 .. Len(s) |-> s[Len(s) + 1 - i]]

\* Byte number i (0 = least significant) of the bit pattern v.
ByteOf(v, i) == (v \div (256 ^ i)) % 256

LittleEndianBytes(k, v) == [i \in 1 .. k |-> ByteOf(v, i - 1)]
BigEndianBytes(k, v) == [i \in 1 .. k |-> ByteOf(v, k - i)]

RECURSIVE FromLittleEndian(_)
FromLittleEndian(bytes) ==
    IF bytes = <<>> THEN 0 ELSE Head(bytes) + 256 * FromLittleEndian(Tail(bytes))

\* The object representation of a value on this host (reinterpret_cast<const uint8_t*>(&x)).
ObjectBytes(k, v) ==
    IF native = "little" THEN LittleEndianBytes(k, v) ELSE BigEndianBytes(k, v)

\* The value an object holds on this host.
ObjectValue(bytes) ==
    IF native = "little" THEN FromLittleEndian(bytes) ELSE FromLittleEndian(Reverse(bytes))

\* A byte swap that swaps the two bytes of each 16-bit half.
byteswap_pairs(k, v) ==
    IF k = 1 THEN v
    ELSE IF k = 2 THEN (v % 256) * 256 + (v \div 256)
    ELSE LET lo == v % 65536
             hi == v \div 65536
         IN  ((lo % 256) * 256 + (lo \div 256))
             + 65536 * ((hi % 256) * 256 + (hi \div 256))

\* DataStream::byteswap: std::byteswap on the bit pattern (for a floating type,
\* on the bit_cast to the unsigned integer of the same width).
RECURSIVE byteswap(_, _)
byteswap(k, v) ==
    IF k = 0 THEN 0 ELSE (v % 256) * 256 ^ (k - 1) + byteswap(k - 1, v \div 256)

\* Stream::byteswap.
StreamByteswap(s, k, v) ==
    IF endiannes[s] # native THEN byteswap(k, v) ELSE v

----------------------------------------------------------------------------
(* std::size_t arithmetic and memory *)

SizeAdd(a, b) == (a + b) % SizeMod

Slice(b, pos, k) == [i \in 1 .. k |-> b[pos + i]]

\* std::copy_n(src, k, underlying_data + pos).  Inside the container it stores
\* the bytes.  Outside it the behaviour is undefined: the build either faults
\* before storing, or stores with the address wrapped around.
CopyIn(self, pos, bytes) ==
    IF self.underlying_data = "buf" /\ pos + Len(bytes) <= Cap
    THEN {[buf |-> [i \in 1 .. Cap |->
                      IF i - 1 >= pos /\ i - 1 < pos + Len(bytes)
                      THEN bytes[i - pos] ELSE buf[i]],
           oob |-> FALSE]}
    ELSE {[buf |-> buf, oob |-> TRUE],
          [buf |-> [i \in 1 .. Cap |->
                      IF \E j \in 1 .. Len(bytes) : (pos + j - 1) % SizeMod = i - 1
                      THEN bytes[CHOOSE j \in 1 .. Len(bytes) : (pos + j - 1) % SizeMod = i - 1]
                      ELSE buf[i]],
           oob |-> TRUE]}

\* std::copy_n(underlying_data + pos, k, dst).  Outside the container the
\* behaviour is undefined: the bytes fetched there are anything.
CopyOut(self, pos, k) ==
    IF self.underlying_data = "buf" /\ pos + k <= Cap
    THEN {[bytes |-> Slice(buf, pos, k), oob |-> FALSE]}
    ELSE {[bytes |-> [j \in 1 .. k |->
                        IF (pos + j - 1) % SizeMod < Cap
                        THEN buf[((pos + j - 1) % SizeMod) + 1] ELSE junk],
           oob |-> TRUE] : junk \in {0, 127}}

----------------------------------------------------------------------------
(* The caller's std::fstream: one joint position, and a sticky failure state *)

\* std::fstream::write.  A failed stream stores nothing; a write the device
\* cannot take sets the failure state.
FileWrite(f, bytes) ==
    IF ~f.good THEN f
    ELSE IF f.pos + Len(bytes) > MaxFile THEN [f EXCEPT !.good = FALSE]
    ELSE [f EXCEPT
            !.content = [i \in 1 .. (IF f.pos + Len(bytes) > Len(f.content)
                                     THEN f.pos + Len(bytes) ELSE Len(f.content)) |->
                           IF i > f.pos /\ i <= f.pos + Len(bytes)
                           THEN bytes[i - f.pos] ELSE f.content[i]],
            !.pos = f.pos + Len(bytes)]

\* std::fstream::read.  A short read sets the failure state at end of file.
FileRead(f, k) ==
    IF ~f.good THEN [f |-> f, bytes |-> <<>>]
    ELSE IF f.pos + k > Len(f.content)
    THEN [f |-> [f EXCEPT !.good = FALSE, !.pos = Len(f.content)], bytes |-> <<>>]
    ELSE [f |-> [f EXCEPT !.pos = f.pos + k], bytes |-> Slice(f.content, f.pos, k)]

----------------------------------------------------------------------------
(* The format state of std::cout and the hex dump's formatting *)

CoutDefault == [base |-> "dec", uppercase |-> FALSE, fill |-> " "]
CoutFormats == {CoutDefault, [base |-> "hex", uppercase |-> TRUE, fill |-> "0"]}

HexDigits == <<"0", "1", "2", "3", "4", "5", "6", "7",
               "8", "9", "A", "B", "C", "D", "E", "F">>

\* operator<< of an unsigned number under std::hex and std::uppercase.
RECURSIVE HexNumber(_)
HexNumber(n) ==
    IF n < 16 THEN <<HexDigits[n + 1]>>
    ELSE HexNumber(n \div 16) \o <<HexDigits[(n % 16) + 1]>>

\* std::setw(w) with std::setfill(c): pad on the left up to the width.
RECURSIVE PadLeft(_, _, _)
PadLeft(chars, w, c) ==
    IF Len(chars) >= w THEN chars ELSE PadLeft(<<c>> \o chars, w, c)

\* The loop of string() with the delimiter after every byte.
RECURSIVE HexDump_trailing(_, _, _, _)
HexDump_trailing(b, i, size, delimeter) ==
    IF i >= size THEN <<>>
    ELSE PadLeft(HexNumber(b[i + 1]), 2, "0") \o delimeter
         \o HexDump_trailing(b, i + 1, size, delimeter)

\* The loop of string(): bytes i .. data.size() - 1.
RECURSIVE HexDump(_, _, _, _)
HexDump(b, i, size, delimeter) ==
    IF i >= size THEN <<>>
    ELSE PadLeft(HexNumber(b[i + 1]), 2, "0")
         \o (IF i = size - 1 THEN <<>> ELSE delimeter)
         \o HexDump(b, i + 1, size, delimeter)

----------------------------------------------------------------------------
(* The methods of Stream.  Each gives the set of its possible outcomes: what *)
(* it returns or throws (res), the stream, buffer, file and std::cout after  *)
(* it, the value or string it hands back, and whether it touched memory      *)
(* outside the container (oob).                                              *)

Outcome(res, self, b, f, c, val, str, oob) ==
    [res |-> res, self |-> self, buf |-> b, file |-> f, cout |-> c,
     val |-> val, str |-> str, oob |-> oob]

Thrown(res, s) == Outcome(res, st[s], buf, file, cout, 0, <<>>, FALSE)

\* Stream::write with the size of the data left out of the bounds test.
write_unchecked_size(s, data) ==
    IF st[s].file_stream
    THEN LET f == FileWrite(file, data) IN
         {Outcome(IF f.good THEN "ok" ELSE "ios_failure",
                  st[s], buf, f, cout, 0, <<>>, FALSE)}
    ELSE IF st[s].index > st[s].data_size
    THEN {Thrown("out_of_range", s)}
    ELSE {Outcome(IF c.oob THEN "ub" ELSE "ok",
                  [st[s] EXCEPT !.index = SizeAdd(st[s].index, Len(data))],
                  c.buf, file, cout, 0, <<>>, c.oob)
          : c \in CopyIn(st[s], st[s].index, data)}

\* Stream::write (private).
write(s, data) ==
    IF st[s].file_stream
    THEN LET f == FileWrite(file, data) IN
         {Outcome(IF f.good THEN "ok" ELSE "ios_failure",
                  st[s], buf, f, cout, 0, <<>>, FALSE)}
    ELSE IF SizeAdd(st[s].index, Len(data)) > st[s].data_size
    THEN {Thrown("out_of_range", s)}
    ELSE {Outcome(IF c.oob THEN "ub" ELSE "ok",
                  [st[s] EXCEPT !.index = SizeAdd(st[s].index, Len(data))],
                  c.buf, file, cout, 0, <<>>, c.oob)
          : c \in CopyIn(st[s], st[s].index, data)}

\* Stream::read advancing the index before the bounds test.
read_advance_first(s, k) ==
    IF st[s].file_stream
    THEN LET r == FileRead(file, k) IN
         {Outcome(IF r.f.good THEN "ok" ELSE "ios_failure",
                  st[s], buf, r.f, cout,
                  IF r.f.good THEN ObjectValue(r.bytes) ELSE 0, <<>>, FALSE)}
    ELSE IF SizeAdd(st[s].index, k) > st[s].data_size
    THEN {Outcome("out_of_range",
                  [st[s] EXCEPT !.index = SizeAdd(st[s].index, k)],
                  buf, file, cout, 0, <<>>, FALSE)}
    ELSE {Outcome(IF c.oob THEN "ub" ELSE "ok",
                  [st[s] EXCEPT !.index = SizeAdd(st[s].index, k)],
                  buf, file, cout, ObjectValue(c.bytes), <<>>, c.oob)
          : c \in CopyOut(st[s], st[s].index, k)}

\* Stream::read (private).  val is the value of the object the bytes were
\* copied into.
read(s, k) ==
    IF st[s].file_stream
    THEN LET r == FileRead(file, k) IN
         {Outcome(IF r.f.good THEN "ok" ELSE "ios_failure",
                  st[s], buf, r.f, cout,
                  IF r.f.good THEN ObjectValue(r.bytes) ELSE 0, <<>>, FALSE)}
    ELSE IF SizeAdd(st[s].index, k) > st[s].data_size
    THEN {Thrown("out_of_range", s)}
    ELSE {Outcome(IF c.oob THEN "ub" ELSE "ok",
                  [st[s] EXCEPT !.index = SizeAdd(st[s].index, k)],
                  buf, file, cout, ObjectValue(c.bytes), <<>>, c.oob)
          : c \in CopyOut(st[s], st[s].index, k)}

\* Stream::operator<< storing the value as the host holds it, not converted.
op_insert_raw(s, k, value) ==
    IF mode[s] # Output
    THEN {Thrown("ill_formed", s)}
    ELSE write(s, ObjectBytes(k, value))

\* Stream::operator<<.  Its requires-clause makes the call ill-formed on a
\* stream whose mode is not exactly Output.
op_insert(s, k, value) ==
    IF mode[s] # Output
    THEN {Thrown("ill_formed", s)}
    ELSE write(s, ObjectBytes(k, StreamByteswap(s, k, value)))

\* Stream::operator>> handing back the bytes as read, not converted.
op_extract_raw(s, k) ==
    IF mode[s] # Input
    THEN {Thrown("ill_formed", s)}
    ELSE read(s, k)

\* Stream::operator>>.  Its requires-clause makes the call ill-formed on a
\* stream whose mode is not exactly Input.
op_extract(s, k) ==
    IF mode[s] # Input
    THEN {Thrown("ill_formed", s)}
    ELSE {IF o.res = "ok" THEN [o EXCEPT !.val = StreamByteswap(s, k, o.val)] ELSE o
          : o \in read(s, k)}

\* Stream::set moving the cursor past what it stored, as write does.
set_moves_cursor(s, k, value, start_index) ==
    IF ~HasFlag(mode[s], Output)
    THEN {Thrown("ill_formed", s)}
    ELSE IF st[s].file_stream
    THEN {Thrown("logic_error", s)}
    ELSE IF SizeAdd(start_index, k) > st[s].data_size
    THEN {Thrown("out_of_range", s)}
    ELSE {Outcome(IF c.oob THEN "ub" ELSE "ok",
                  [st[s] EXCEPT !.index = SizeAdd(start_index, k)],
                  c.buf, file, cout, 0, <<>>, c.oob)
          : c \in CopyIn(st[s], start_index,
                         ObjectBytes(k, StreamByteswap(s, k, value)))}

\* Stream::set without its requires-clause on the mode.
set_ungated(s, k, value, start_index) ==
    IF st[s].file_stream
    THEN {Thrown("logic_error", s)}
    ELSE IF SizeAdd(start_index, k) > st[s].data_size
    THEN {Thrown("out_of_range", s)}
    ELSE {Outcome(IF c.oob THEN "ub" ELSE "ok",
                  st[s], c.buf, file, cout, 0, <<>>, c.oob)
          : c \in CopyIn(st[s], start_index,
                         ObjectBytes(k, StreamByteswap(s, k, value)))}

\* Stream::set.
set(s, k, value, start_index) ==
    IF ~HasFlag(mode[s], Output)
    THEN {Thrown("ill_formed", s)}
    ELSE IF st[s].file_stream
    THEN {Thrown("logic_error", s)}
    ELSE IF SizeAdd(start_index, k) > st[s].data_size
    THEN {Thrown("out_of_range", s)}
    ELSE {Outcome(IF c.oob THEN "ub" ELSE "ok",
                  st[s], c.buf, file, cout, 0, <<>>, c.oob)
          : c \in CopyIn(st[s], start_index,
                         ObjectBytes(k, StreamByteswap(s, k, value)))}

\* Stream::get(T&, std::size_t) testing the bounds before the backing.
get_bounds_first(s, k, start_index) ==
    IF ~HasFlag(mode[s], Input)
    THEN {Thrown("ill_formed", s)}
    ELSE IF SizeAdd(start_index, k) > st[s].data_size
    THEN {Thrown("out_of_range", s)}
    ELSE IF st[s].file_stream
    THEN {Thrown("logic_error", s)}
    ELSE {Outcome(IF c.oob THEN "ub" ELSE "ok",
                  st[s], buf, file, cout,
                  StreamByteswap(s, k, ObjectValue(c.bytes)), <<>>, c.oob)
          : c \in CopyOut(st[s], start_index, k)}

\* Stream::get(T&, std::size_t).
get(s, k, start_index) ==
    IF ~HasFlag(mode[s], Input)
    THEN {Thrown("ill_formed", s)}
    ELSE IF st[s].file_stream
    THEN {Thrown("logic_error", s)}
    ELSE IF SizeAdd(start_index, k) > st[s].data_size
    THEN {Thrown("out_of_range", s)}
    ELSE {Outcome(IF c.oob THEN "ub" ELSE "ok",
                  st[s], buf, file, cout,
                  StreamByteswap(s, k, ObjectValue(c.bytes)), <<>>, c.oob)
          : c \in CopyOut(st[s], start_index, k)}

\* Stream::get(): the raw view.
get_raw(s) ==
    IF st[s].file_stream
    THEN {Thrown("logic_error", s)}
    ELSE {Outcome("ok", st[s], buf, file, cout, 0, <<>>, FALSE)}

\* Stream::string.
string(s, delimeter) ==
    IF st[s].file_stream
    THEN {Thrown("logic_error", s)}
    ELSE {Outcome("ok", st[s], buf, file,
                  [cout EXCEPT !.base = "dec", !.uppercase = FALSE, !.fill = " "],
                  0, HexDump(buf, 0, st[s].data_size, delimeter), FALSE)}

----------------------------------------------------------------------------
(* FixedPointQuantizer.  A value of the floating type T is modelled by an    *)
(* exact rational in lowest terms, [num, den] with den > 0, and the          *)
(* arithmetic in T is taken exactly.                                         *)

\* Half of what 1.0 is divided into: the values tried are multiples of
\* 1 / (2 * QHalf).
QHalf == 256

Abs(x) == IF x < 0 THEN -x ELSE x

RECURSIVE GCD(_, _)
GCD(a, b) == IF b = 0 THEN a ELSE GCD(b, a % b)

Rat(n, d) ==
    LET g == GCD(Abs(n), Abs(d))
        sgn == IF d < 0 THEN -1 ELSE 1
    IN  [num |-> sgn * (n \div g), den |-> sgn * (d \div g)]

RatSub(a, b) == Rat(a.num * b.den - b.num * a.den, a.den * b.den)

RatAdd(a, b) == Rat(a.num * b.den + b.num * a.den, a.den * b.den)

RatMul(a, b) ==
    LET g1 == GCD(Abs(a.num), b.den)
        g2 == GCD(Abs(b.num), a.den)
    IN  IF a.num = 0 \/ b.num = 0 THEN Rat(0, 1)
        ELSE Rat((a.num \div g1) * (b.num \div g2), (a.den \div g2) * (b.den \div g1))

RatDiv(a, b) == RatMul(a, Rat(b.den, b.num))

RatLess(a, b) == a.num * b.den < b.num * a.den

\* The floating-to-integer conversion discards the fractional part.
Trunc(a) == IF a.num >= 0 THEN a.num \div a.den ELSE -((-a.num) \div a.den)

\* The intermediate types tried: ValidIntermediateType, 8 and 16 bits wide.
IntermediateTypes == {"int8_t", "uint8_t", "int16_t", "uint16_t"}

\* Bits = sizeof(IT) * 8.
Bits(IT) == IF IT \in {"int8_t", "uint8_t"} THEN 8 ELSE 16

ITMin(IT) == IF IT \in {"int8_t", "int16_t"} THEN -(2 ^ (Bits(IT) - 1)) ELSE 0
ITMax(IT) == IF IT \in {"int8_t", "int16_t"} THEN 2 ^ (Bits(IT) - 1) - 1 ELSE 2 ^ Bits(IT) - 1

\* The conversion of a T to IT.  When the truncated value is not a value of
\* IT the behaviour is undefined: builds wrap it into IT or saturate it.
ConvertToIT(IT, x) ==
    LET t == Trunc(x) IN
    IF t >= ITMin(IT) /\ t <= ITMax(IT)
    THEN {[code |-> t, exact |-> t, defined |-> TRUE]}
    ELSE {[code |-> ((t - ITMin(IT)) % (2 ^ Bits(IT))) + ITMin(IT),
           exact |-> t, defined |-> FALSE],
          [code |-> IF t < ITMin(IT) THEN ITMin(IT) ELSE ITMax(IT),
           exact |-> t, defined |-> FALSE]}

\* FixedPointQuantizer::to_fpq(value, minimum, maximum).
to_fpq(IT, value, minimum, maximum) ==
    LET v1 == IF RatLess(maximum, value) THEN maximum ELSE value
        v2 == IF RatLess(v1, minimum) THEN minimum ELSE v1
        normalised == RatDiv(v2, RatSub(maximum, minimum))
        converted == IF normalised = Rat(1, 2)
                     THEN Rat(2 ^ (Bits(IT) - 1), 1)
                     ELSE RatMul(normalised, Rat(2 ^ Bits(IT) - 1, 1))
    IN  ConvertToIT(IT, converted)

\* FixedPointQuantizer::from_fpq(value, minimum, maximum).
from_fpq(IT, value, minimum, maximum) ==
    LET denormalised == RatDiv(Rat(value, 1), Rat(2 ^ Bits(IT) - 1, 1))
    IN  RatMul(denormalised, RatSub(maximum, minimum))

\* The domains [minimum, maximum] tried: [0, 1], [1, 2] and [-1, 1].
QDomains == {<<Rat(0, 1), Rat(1, 1)>>, <<Rat(1, 1), Rat(2, 1)>>, <<Rat(-1, 1), Rat(1, 1)>>}

\* The values encoded in a domain: both bounds, a value beyond each, the
\* midpoint of the domain and the value half the range long, each with its
\* two neighbours.
QValues(minimum, maximum) ==
    LET range == RatSub(maximum, minimum)
        half == RatMul(range, Rat(1, 2))
        step == RatMul(range, Rat(1, 2 * QHalf))
        mid == RatAdd(minimum, half)
    IN  {minimum, maximum, RatSub(minimum, half), RatAdd(maximum, half),
         mid, RatSub(mid, step), RatAdd(mid, step),
         half, RatSub(half, step), RatAdd(half, step)}

\* The codes decoded: both ends of the code range and the midpoint code.
QCodes(IT) == {0, 1, 2 ^ (Bits(IT) - 1), 2 ^ Bits(IT) - 1} \cap (ITMin(IT) .. ITMax(IT))

QIdle == [IT |-> "none", minimum_value |-> Rat(0, 1), maximum_value |-> Rat(0, 1)]

QNoCall ==
    [op |-> "none", value |-> Rat(0, 1), code |-> 0, exact |-> 0, defined |-> TRUE,
     prev |-> FALSE, pop |-> "none", pvalue |-> Rat(0, 1), pcode |-> 0,
     pdefined |-> TRUE]

----------------------------------------------------------------------------
(* Construction *)

\* Stream(Container&) and Stream(uint8_t (&)[N]): a view of the whole container.
BufferStream ==
    [data_size |-> Cap, underlying_data |-> "buf", file_stream |-> FALSE, index |-> 0]

\* Stream(std::fstream&): the members keep their default initialisers.
FileStream ==
    [data_size |-> 0, underlying_data |-> "null", file_stream |-> TRUE, index |-> 0]

NoValue == [k |-> 0, v |-> 0, e |-> "none"]

NotSequenced == [k |-> 0, v |-> 0, e |-> "none", intact |-> FALSE]

NoCall ==
    [op |-> "none", s |-> 0, src |-> 0, k |-> 0, off |-> 0, val |-> 0,
     delim |-> <<>>, str |-> <<>>, res |-> "ok", oob |-> FALSE]

\* The state right after construction, whatever the build and the template
\* arguments: an untouched container, a freshly opened empty file.
Constructed ==
    /\ native \in Endians
    /\ mode \in [Streams -> {Input, Output, Input + Output}]
    /\ endiannes \in [Streams -> Endians]
    /\ st \in [Streams -> {BufferStream, FileStream}]
    /\ buf = [i \in 1 .. Cap |-> 0]
    /\ file = [content |-> <<>>, pos |-> 0, good |-> TRUE]
    /\ cout \in CoutFormats
    /\ last = NoCall
    /\ seqsum = [s \in Streams |-> 0]
    /\ written = [p \in 0 .. Cap - 1 |-> NoValue]
    /\ track \in BOOLEAN
    /\ sequenced \in {[on |-> b, w |-> [p \in 0 .. Cap - 1 |-> NotSequenced]] : b \in BOOLEAN}
    /\ q = QIdle
    /\ qlast = QNoCall

\* One stream in use, of any mode and either backing, on a little-endian host.
Init ==
    /\ Constructed
    /\ native = "little"
    /\ ~track /\ ~sequenced.on
    /\ mode[2] = mode[1] /\ endiannes[2] = endiannes[1] /\ st[2] = st[1]

----------------------------------------------------------------------------
(* Calls *)

Overlaps(p, k, pos, n) == p < pos + n /\ pos < p + k

\* What is known to be stored after a call: a successful store of value v at
\* pos replaces what it overlaps; a store gone wrong leaves nothing known.
Remember(op, s, k, pos, v, o) ==
    IF op \in {"write", "set"} /\ o.res = "ok" /\ ~st[s].file_stream
    THEN [p \in 0 .. Cap - 1 |->
            IF p = pos THEN [k |-> k, v |-> v, e |-> endiannes[s]]
            ELSE IF written[p].k > 0 /\ Overlaps(p, written[p].k, pos, k) THEN NoValue
            ELSE written[p]]
    ELSE IF o.buf # buf THEN [p \in 0 .. Cap - 1 |-> NoValue]
    ELSE written

\* The effect of a call of op on stream s that ended with outcome o.
\* What sequenced.w becomes: a successful << records its value at the cursor
\* it wrote at; any store that changes bytes of a recorded value marks it.
Sequence(op, s, k, pos, v, o) ==
    [p \in 0 .. Cap - 1 |->
        IF op = "write" /\ o.res = "ok" /\ ~st[s].file_stream /\ p = pos
        THEN [k |-> k, v |-> v, e |-> endiannes[s], intact |-> TRUE]
        ELSE IF /\ sequenced.w[p].k > 0
                /\ Slice(o.buf, p, sequenced.w[p].k) # Slice(buf, p, sequenced.w[p].k)
        THEN [sequenced.w[p] EXCEPT !.intact = FALSE]
        ELSE sequenced.w[p]]

Call(op, s, k, off, v, delim, o) ==
    /\ st' = [st EXCEPT ![s] = o.self]
    /\ buf' = o.buf
    /\ file' = o.file
    /\ cout' = o.cout
    /\ last' = [op |-> op, s |-> s, src |-> 0, k |-> k, off |-> off,
                val |-> IF op \in {"read", "get"} THEN o.val ELSE v,
                delim |-> delim, str |-> o.str, res |-> o.res, oob |-> o.oob]
    /\ seqsum' = IF op \in {"write", "read"} /\ o.res = "ok"
                 THEN [seqsum EXCEPT ![s] = @ + k] ELSE seqsum
    /\ written' = IF track THEN Remember(op, s, k, off, v, o) ELSE written
    /\ sequenced' = IF sequenced.on
                    THEN [sequenced EXCEPT !.w = Sequence(op, s, k, off, v, o)]
                    ELSE sequenced
    /\ UNCHANGED <<native, mode, endiannes, track, q, qlast>>

\* stream << value
Insert(SS, KS) ==
    \E s \in SS, k \in KS : \E v \in ValuesOf(k) : \E o \in op_insert(s, k, v) :
        Call("write", s, k, st[s].index, v, <<>>, o)

\* stream >> value
Extract(SS, KS) ==
    \E s \in SS, k \in KS : \E o \in op_extract(s, k) :
        Call("read", s, k, st[s].index, 0, <<>>, o)

\* stream.set(value, start_index)
Set(SS, KS, OS) ==
    \E s \in SS, k \in KS, off \in OS : \E v \in ValuesOf(k) :
        \E o \in set(s, k, v, off) :
            Call("set", s, k, off, v, <<>>, o)

\* stream.get(value, start_index)
Get(SS, KS, OS) ==
    \E s \in SS, k \in KS, off \in OS : \E o \in get(s, k, off) :
        Call("get", s, k, off, 0, <<>>, o)

\* stream.get()
GetRaw(SS) ==
    \E s \in SS : \E o \in get_raw(s) :
        Call("raw", s, 0, 0, 0, <<>>, o)

\* stream.string(delimeter)
String(SS) ==
    \E s \in SS, d \in Delimiters : \E o \in string(s, d) :
        Call("string", s, 0, 0, 0, d, o)

Next ==
    \/ Insert({1}, Sizes)
    \/ Extract({1}, Sizes)
    \/ Set({1}, Sizes, Offsets)
    \/ Get({1}, Sizes, Offsets)
    \/ GetRaw({1})
    \/ String({1})

Spec == Init /\ [][Next]_vars

\* A writer and a reader over the same container, on either host and with
\* either byte order each.
InitRT ==
    /\ Constructed
    /\ mode = [s \in Streams |-> IF s = 1 THEN Output ELSE Input]
    /\ st = [s \in Streams |-> BufferStream]
    /\ cout = CoutDefault
    /\ track /\ ~sequenced.on

\* The offsets the writer sets and the reader gets.
RTOffsets == {0, Cap - 2}

NextRT ==
    \/ Insert({1}, Sizes)
    \/ Set({1}, Sizes, RTOffsets)
    \/ Extract({2}, Sizes)
    \/ Get({2}, Sizes, RTOffsets)

SpecRT == InitRT /\ [][NextRT]_vars

----------------------------------------------------------------------------
(* Copy and move.  Streams 1 and 2 are two objects of one Stream type.      *)

\* What std::exchange leaves in the source of a move: an empty span, two null
\* pointers and index 0.
MovedFrom == [data_size |-> 0, underlying_data |-> "null", file_stream |-> FALSE, index |-> 0]

\* Stream(const Stream& o) that starts the copy at cursor 0.
copy_ctor_resets_index(o) ==
    [data_size |-> st[o].data_size, underlying_data |-> st[o].underlying_data,
     file_stream |-> st[o].file_stream, index |-> 0]

\* Stream(const Stream& o): the new stream.
copy_ctor(o) ==
    [data_size |-> st[o].data_size, underlying_data |-> st[o].underlying_data,
     file_stream |-> st[o].file_stream, index |-> st[o].index]

\* operator=(const Stream& o) that leaves file_stream as it was.
copy_assign_keeps_file(this, o) ==
    IF this = o THEN st[this]
    ELSE [data_size |-> st[o].data_size, underlying_data |-> st[o].underlying_data,
          file_stream |-> st[this].file_stream, index |-> st[o].index]

\* operator=(const Stream& o): *this after the assignment.
copy_assign(this, o) ==
    IF this = o THEN st[this]
    ELSE [data_size |-> st[o].data_size, underlying_data |-> st[o].underlying_data,
          file_stream |-> st[o].file_stream, index |-> st[o].index]

\* Stream(Stream&& o): the new stream, and o after the move.
move_ctor(o) ==
    [self |-> [data_size |-> st[o].data_size, underlying_data |-> st[o].underlying_data,
               file_stream |-> st[o].file_stream, index |-> st[o].index],
     other |-> MovedFrom]

\* operator=(Stream&& o) that copies o.index and leaves it in o.
move_assign_keeps_index(this, o) ==
    IF this = o THEN [self |-> st[this], other |-> st[o]]
    ELSE [self |-> [data_size |-> st[o].data_size,
                    underlying_data |-> st[o].underlying_data,
                    file_stream |-> st[o].file_stream, index |-> st[o].index],
          other |-> [MovedFrom EXCEPT !.index = st[o].index]]

\* operator=(Stream&& o): *this and o after the assignment.
move_assign(this, o) ==
    IF this = o THEN [self |-> st[this], other |-> st[o]]
    ELSE [self |-> [data_size |-> st[o].data_size,
                    underlying_data |-> st[o].underlying_data,
                    file_stream |-> st[o].file_stream, index |-> st[o].index],
          other |-> MovedFrom]

\* A copy or move: the streams after it.  The count of bytes moved by << and
\* >> goes with the cursor.
Transfer(op, this, o, self, other) ==
    /\ st' = [s \in Streams |-> IF s = this THEN self ELSE IF s = o THEN other ELSE st[s]]
    /\ last' = [NoCall EXCEPT !.op = op, !.s = this, !.src = o]
    /\ seqsum' = [s \in Streams |->
                    IF s = this THEN seqsum[o]
                    ELSE IF s = o /\ other # st[o] THEN 0 ELSE seqsum[s]]
    /\ UNCHANGED <<native, mode, endiannes, buf, file, cout, written, track,
                   sequenced, q, qlast>>

\* Stream b(a), b taking the place of the stream that was there.
CopyConstruct ==
    \E this \in Streams, o \in Streams :
        /\ this # o
        /\ Transfer("copy_ctor", this, o, copy_ctor(o), st[o])

\* b = a
CopyAssign ==
    \E this \in Streams, o \in Streams :
        Transfer("copy_assign", this, o, copy_assign(this, o), st[o])

\* Stream b(std::move(a))
MoveConstruct ==
    \E this \in Streams, o \in Streams :
        /\ this # o
        /\ Transfer("move_ctor", this, o, move_ctor(o).self, move_ctor(o).other)

\* b = std::move(a)
MoveAssign ==
    \E this \in Streams, o \in Streams :
        Transfer("move_assign", this, o, move_assign(this, o).self,
                 move_assign(this, o).other)

\* Stream 1 is constructed over the container and stream 2 over the file.
InitCM ==
    /\ Constructed
    /\ native = "little"
    /\ mode[2] = mode[1] /\ endiannes[2] = endiannes[1]
    /\ st = [s \in Streams |-> IF s = 1 THEN BufferStream ELSE FileStream]
    /\ cout = CoutDefault
    /\ ~track /\ ~sequenced.on

\* The sizes the two streams write and read in sequence, and the sizes and
\* offsets they set and get.
CMSequential == {2}
CMSizes == {1, 2}
CMOffsets == {0, SIZE_MAX}

NextCM ==
    \/ CopyConstruct
    \/ CopyAssign
    \/ MoveConstruct
    \/ MoveAssign
    \/ Insert(Streams, CMSequential)
    \/ Extract(Streams, CMSequential)
    \/ Set(Streams, CMSizes, CMOffsets)
    \/ Get(Streams, CMSizes, CMOffsets)
    \/ String(Streams)

SpecCM == InitCM /\ [][NextCM]_vars

----------------------------------------------------------------------------
(* A writer and a reader of one byte order over one container, the values    *)
(* written by << being recorded.                                             *)

InitSeq ==
    /\ Constructed
    /\ native = "little"
    /\ mode = [s \in Streams |-> IF s = 1 THEN Output ELSE Input]
    /\ endiannes[2] = endiannes[1]
    /\ st = [s \in Streams |-> BufferStream]
    /\ cout = CoutDefault
    /\ ~track /\ sequenced.on

NextSeq ==
    \/ Insert({1}, Sizes)
    \/ Set({1}, Sizes, RTOffsets)
    \/ Extract({2}, Sizes)
    \/ Get({2}, Sizes, RTOffsets)

SpecSeq == InitSeq /\ [][NextSeq]_vars

----------------------------------------------------------------------------
(* The quantizer alone *)


\* FixedPointQuantizer(minimum_value, maximum_value), for each intermediate
\* type and domain; the streams stay as constructed.
InitQ ==
    /\ native = "little"
    /\ mode = [s \in Streams |-> Input + Output]
    /\ endiannes = [s \in Streams |-> "little"]
    /\ st = [s \in Streams |-> BufferStream]
    /\ buf = [i \in 1 .. Cap |-> 0]
    /\ file = [content |-> <<>>, pos |-> 0, good |-> TRUE]
    /\ cout = CoutDefault
    /\ last = NoCall
    /\ seqsum = [s \in Streams |-> 0]
    /\ written = [p \in 0 .. Cap - 1 |-> NoValue]
    /\ track = FALSE
    /\ sequenced = [on |-> FALSE, w |-> [p \in 0 .. Cap - 1 |-> NotSequenced]]
    /\ \E IT \in IntermediateTypes, d \in QDomains :
          q = [IT |-> IT, minimum_value |-> d[1], maximum_value |-> d[2]]
    /\ qlast = QNoCall

\* quantizer.to_fpq(value), of a value tried or of the value last decoded.
ToFpq ==
    \E value \in QValues(q.minimum_value, q.maximum_value)
                 \cup (IF qlast.op = "from_fpq" THEN {qlast.value} ELSE {}) :
        \E o \in to_fpq(q.IT, value, q.minimum_value, q.maximum_value) :
            /\ qlast' = [op |-> "to_fpq", value |-> value, code |-> o.code,
                         exact |-> o.exact, defined |-> o.defined,
                         prev |-> qlast.op = "to_fpq", pop |-> qlast.op,
                         pvalue |-> qlast.value, pcode |-> qlast.code,
                         pdefined |-> qlast.defined]
            /\ UNCHANGED <<q, streamVars>>

\* quantizer.from_fpq(code).
FromFpq ==
    \E code \in QCodes(q.IT) :
        /\ qlast' = [op |-> "from_fpq",
                     value |-> from_fpq(q.IT, code, q.minimum_value, q.maximum_value),
                     code |-> code, exact |-> code, defined |-> TRUE,
                     prev |-> FALSE, pop |-> qlast.op,
                     pvalue |-> Rat(0, 1), pcode |-> 0, pdefined |-> TRUE]
        /\ UNCHANGED <<q, streamVars>>

NextQ == ToFpq \/ FromFpq

SpecQ == InitQ /\ [][NextQ]_vars

----------------------------------------------------------------------------
(* Bounds and cursor *)

BufferBacked(s) == ~st[s].file_stream

\* C1: on a buffer-backed stream, a sequential write or read of k bytes issued
\* with cursor + k > capacity throws std::out_of_range and leaves every byte
\* of the buffer as it was.
C1_SequentialBounds ==
    [][(/\ last'.op \in {"write", "read"}
        /\ last'.res # "ill_formed"
        /\ BufferBacked(last'.s)
        /\ st[last'.s].index + last'.k > st[last'.s].data_size)
       => (last'.res = "out_of_range" /\ buf' = buf)]_vars

\* A write that does not fit was refused after earlier writes filled part of
\* the buffer.
C1_Witness ==
    /\ last.op = "write" /\ last.res = "out_of_range"
    /\ BufferBacked(last.s)
    /\ last.off > 0 /\ last.off + last.k > st[last.s].data_size
    /\ buf[1] # 0

\* C2: on a buffer-backed stream, set and get throw std::out_of_range for
\* every start_index whose true sum start_index + k exceeds the capacity, and
\* touch no byte outside the container.
C2_DirectBounds ==
    (/\ last.op \in {"set", "get"}
     /\ last.res # "ill_formed"
     /\ BufferBacked(last.s)
     /\ last.off + last.k > st[last.s].data_size)
    => (last.res = "out_of_range" /\ ~last.oob)

\* C3: a call rejected by the bounds test, or rejected because the stream is
\* file-backed, leaves the cursor where it was.
C3_RejectedKeepsCursor ==
    [][last'.res \in {"out_of_range", "logic_error"}
       => st'[last'.s].index = st[last'.s].index]_vars

\* A read was refused by the bounds test with the cursor already advanced.
C3_Witness ==
    /\ last.op = "read" /\ last.res = "out_of_range"
    /\ st[last.s].index > 0
    /\ st[last.s].index = last.off

\* C4: the cursor of a buffer-backed stream is the sum of sizeof(T) over its
\* successful sequential writes and reads; set and get never move it.
C4_CursorIsSum ==
    \A s \in Streams : BufferBacked(s) => st[s].index = seqsum[s]

\* A set succeeded after sequential writes had moved the cursor.
C4_Witness ==
    /\ last.op = "set" /\ last.res = "ok"
    /\ BufferBacked(last.s)
    /\ seqsum[last.s] = 3
    /\ st[last.s].index = 3

----------------------------------------------------------------------------
(* Direction *)

\* C7: operator<< is a legal call on every stream whose mode includes Output
\* and operator>> on every stream whose mode includes Input.
C7_CapabilitySet ==
    /\ (last.op = "write" /\ HasFlag(mode[last.s], Output)) => last.res # "ill_formed"
    /\ (last.op = "read" /\ HasFlag(mode[last.s], Input)) => last.res # "ill_formed"

----------------------------------------------------------------------------
(* File backing *)

DirectOps == {"set", "get", "raw", "string"}

\* C12: on a file-backed stream set, get, get() and string() each throw
\* std::logic_error, whatever the offset and value, leaving file, buffer,
\* stream and std::cout untouched; only << and >> ever change the file.
C12_FileRejectsDirect ==
    [][/\ (/\ last'.op \in DirectOps
           /\ last'.res # "ill_formed"
           /\ st[last'.s].file_stream)
          => (/\ last'.res = "logic_error"
              /\ file' = file /\ buf' = buf /\ st' = st /\ cout' = cout)
       /\ file' # file => last'.op \in {"write", "read"}]_vars

\* A set at the largest offset was refused on a file-backed stream whose file
\* already holds written bytes.
C12_Witness ==
    /\ last.op = "set" /\ last.res = "logic_error"
    /\ last.off = SIZE_MAX
    /\ st[last.s].file_stream
    /\ Len(file.content) > 0

----------------------------------------------------------------------------
(* Hex dump *)

\* C10: string() on a buffer-backed stream changes neither the buffer, nor
\* the cursor, nor the format state of std::cout.
C10_StringIsPure ==
    [][(last'.op = "string" /\ last'.res = "ok")
       => (buf' = buf /\ st' = st /\ cout' = cout)]_vars

UpperHex == <<"0", "1", "2", "3", "4", "5", "6", "7",
              "8", "9", "A", "B", "C", "D", "E", "F">>

\* C15: string(delimiter) on a buffer-backed stream of capacity n returns n
\* groups of two upper-case hex digits, zero-padded, in storage order, the
\* delimiter between consecutive groups and none after the last; the empty
\* string for n = 0; "00 FF 1A" for the bytes 00 FF 1A and delimiter " ".
C15_HexDump ==
    /\ HexDump(<<0, 255, 26>>, 0, 3, <<" ">>)
         = <<"0", "0", " ", "F", "F", " ", "1", "A">>
    /\ (last.op = "string" /\ last.res = "ok")
       => LET n == st[last.s].data_size
              d == last.delim
              g == 2 + Len(d)
          IN  /\ Len(last.str) = IF n = 0 THEN 0 ELSE 2 * n + (n - 1) * Len(d)
              /\ \A j \in 1 .. Len(last.str) :
                    LET byte == buf[((j - 1) \div g) + 1]
                        r == (j - 1) % g
                    IN  last.str[j] = IF r = 0 THEN UpperHex[(byte \div 16) + 1]
                                      ELSE IF r = 1 THEN UpperHex[(byte % 16) + 1]
                                      ELSE d[r - 1]

\* A stream whose cursor has moved dumped a buffer holding written bytes,
\* with the delimiter " ".
C15_Witness ==
    /\ last.op = "string" /\ last.res = "ok"
    /\ last.delim = <<" ">>
    /\ st[last.s].data_size = Cap
    /\ st[last.s].index > 0
    /\ buf[1] # 0 /\ buf[Cap] = 0

----------------------------------------------------------------------------
(* Copies and moves *)

Kind(s) == IF st[s].file_stream THEN "file" ELSE "buffer"

CopyOps == {"copy_ctor", "copy_assign"}
MoveOps == {"move_ctor", "move_assign"}
StreamOps == {"write", "read", "set", "get", "raw", "string"}

\* C16 as stated: the backing kind a stream was constructed with never
\* changes, whatever is done with the stream, copy- and move-assignment and
\* being moved from included.
C16_KindFixed ==
    [][\A s \in Streams : Kind(s)' = Kind(s)]_vars

\* C16 amended: a stream never has a file and a buffer view together; <<, >>,
\* set, get, get() and string() never change its kind; the kind changes only
\* when the stream is the target of a copy or move from a stream of the other
\* kind, whose kind it takes, or when a file-backed stream is moved from,
\* which leaves it with an empty view and no file.
C16_KindAmended ==
    /\ [](\A s \in Streams : ~(st[s].file_stream /\ st[s].underlying_data # "null"))
    /\ [][\A s \in Streams :
            Kind(s)' # Kind(s)
            => /\ last'.op \in CopyOps \cup MoveOps
               /\ \/ (s = last'.s /\ Kind(s)' = Kind(last'.src))
                  \/ (/\ s = last'.src /\ last'.op \in MoveOps
                      /\ st'[s] = MovedFrom)]_vars

\* The stream constructed over the file was copy-assigned the stream over the
\* container and now views the container.
C16_Witness ==
    /\ last.op = "copy_assign" /\ last.s = 2 /\ last.src = 1
    /\ ~st[2].file_stream
    /\ st[2].data_size = Cap

\* Two streams view the same bytes.
SameView(s, t) ==
    /\ ~st[s].file_stream /\ ~st[t].file_stream
    /\ st[s].underlying_data = "buf" /\ st[t].underlying_data = "buf"
    /\ st[s].data_size = st[t].data_size

\* C17: a copy has the cursor and the view of its source and leaves the
\* source as it was; an operation on one stream leaves the other stream's
\* cursor alone; the bytes one stream stores are the value the other fetches
\* at the same offset.
C17_CopiesShare ==
    [][/\ last'.op \in CopyOps
          => (/\ st'[last'.s] = st[last'.src]
              /\ st'[last'.src] = st[last'.src]
              /\ buf' = buf /\ file' = file)
       /\ last'.op \in StreamOps
          => \A t \in Streams \ {last'.s} : st'[t] = st[t]
       /\ \A s \in Streams, t \in Streams, k \in Sizes, off \in 0 .. Cap - 1 :
            (/\ last'.op \in {"write", "set"} /\ last'.res = "ok"
             /\ last'.s = s /\ last'.k = k /\ last'.off = off
             /\ t # s /\ SameView(t, s)')
            => /\ \A c \in CopyOut(st[t], off, k)' :
                     /\ ~c.oob
                     /\ StreamByteswap(t, k, ObjectValue(c.bytes)) = last'.val
               /\ HasFlag(mode[t], Input)
                  => \A o \in get(t, k, off)' :
                        o.res = "ok" /\ o.val = last'.val]_vars

\* The stream constructed over the file, by now a copy of the stream over the
\* container, stored a value while the two cursors stood at different places.
C17_Witness ==
    /\ last.op = "set" /\ last.res = "ok" /\ last.s = 2
    /\ SameView(1, 2)
    /\ st[1].data_size = Cap
    /\ st[1].index # st[2].index

\* C19: in every state the cursor of every stream lies in [0, capacity] of
\* its own view, a file-backed or moved-from stream has cursor 0 and capacity
\* 0, and so cursor + sizeof(T) never wraps around.
C19_CursorWithinView ==
    \A s \in Streams :
        /\ st[s].index >= 0
        /\ st[s].index <= st[s].data_size
        /\ (st[s].file_stream \/ st[s].underlying_data = "null")
           => (st[s].index = 0 /\ st[s].data_size = 0)
        /\ \A k \in Sizes : st[s].index + k < SizeMod

\* A stream whose cursor stood at the end of the container was moved from.
C19_Witness ==
    /\ last.op \in MoveOps /\ last.s # last.src
    /\ st[last.src] = MovedFrom
    /\ st[last.s].index = Cap
    /\ st[last.s].data_size = Cap

\* C20: a move hands backing and cursor to the target and leaves the source
\* with capacity 0, cursor 0 and no file; every <<, >>, set and get on the
\* moved-from stream then throws std::out_of_range and touches neither the
\* container nor the file.
C20_MovedFromFails ==
    [][/\ (last'.op \in MoveOps /\ last'.s # last'.src)
          => (st'[last'.s] = st[last'.src] /\ st'[last'.src] = MovedFrom)
       /\ (/\ last'.op \in {"write", "read", "set", "get"}
           /\ last'.res # "ill_formed"
           /\ st[last'.s] = MovedFrom)
          => (last'.res = "out_of_range" /\ buf' = buf /\ file' = file)]_vars

----------------------------------------------------------------------------
(* Sequences *)

\* C18 as stated: a >> at the offset where << wrote a value of the same type
\* returns that value, whatever set and get did in between.
C18_SequenceReadBack ==
    (/\ last.op = "read" /\ last.res = "ok"
     /\ sequenced.w[last.off].k = last.k)
    => last.val = sequenced.w[last.off].v

\* C18 amended: a >> at the offset where << wrote a value of the same type
\* returns that value provided no set has changed a byte of it since; get
\* and a set elsewhere make no difference.
C18_SequenceIntact ==
    (/\ last.op = "read" /\ last.res = "ok"
     /\ sequenced.w[last.off].k = last.k
     /\ sequenced.w[last.off].intact)
    => last.val = sequenced.w[last.off].v

\* The second value written was read back although a set had overwritten the
\* first one.
C18_Witness ==
    /\ last.op = "read" /\ last.res = "ok"
    /\ last.off > 0
    /\ sequenced.w[last.off].k = last.k
    /\ sequenced.w[last.off].intact
    /\ sequenced.w[0].k > 0 /\ ~sequenced.w[0].intact

----------------------------------------------------------------------------
(* Byte order *)

\* C5: a value stored by << or set and read back by >> or get as the same
\* type at the same place, through a stream of the same byte order, comes
\* back bit for bit.
C5_RoundTrip ==
    (/\ last.op \in {"read", "get"} /\ last.res = "ok"
     /\ last.off < Cap
     /\ written[last.off].k = last.k
     /\ written[last.off].e = endiannes[last.s])
    => last.val = written[last.off].v

\* A 32-bit value written by a stream that swaps was read back by >>.
C5_Witness ==
    /\ last.op = "read" /\ last.res = "ok" /\ last.k = 4
    /\ written[last.off].k = 4
    /\ written[last.off].e = endiannes[last.s]
    /\ endiannes[last.s] # native
    /\ last.val \in ValuesOf(4)

\* C6: a successful << or set of a k-byte value stores it most significant
\* byte first on a BigEndian stream and least significant byte first on a
\* LittleEndian one, whatever the host order.
C6_StoredOrder ==
    (/\ last.op \in {"write", "set"} /\ last.res = "ok"
     /\ BufferBacked(last.s))
    => Slice(buf, last.off, last.k) =
         IF endiannes[last.s] = "big"
         THEN BigEndianBytes(last.k, last.val)
         ELSE LittleEndianBytes(last.k, last.val)

\* A 32-bit value was written big-endian on a little-endian host.
C6_Witness ==
    /\ last.op = "write" /\ last.res = "ok" /\ last.k = 4
    /\ native = "little" /\ endiannes[last.s] = "big"
    /\ buf = <<1, 2, 3, 4>> \o [i \in 1 .. Cap - 4 |-> 0]

----------------------------------------------------------------------------
(* Quantizer *)

InDomain(v) == ~RatLess(v, q.minimum_value) /\ ~RatLess(q.maximum_value, v)

\* C8: for every domain with minimum < maximum and every value, to_fpq
\* returns a code in [0, 2^Bits - 1] that is neither out of range nor wrapped.
C8_CodeInRange ==
    qlast.op = "to_fpq"
    => (/\ qlast.defined
        /\ qlast.code >= 0
        /\ qlast.code <= 2 ^ Bits(q.IT) - 1)

\* C9: to_fpq is monotonic on its domain: of two values a <= b in
\* [minimum, maximum], a's code is not above b's (compared where the
\* conversion to IT is defined for both).
C9_Monotonic ==
    (/\ qlast.op = "to_fpq" /\ qlast.prev
     /\ qlast.defined /\ qlast.pdefined
     /\ InDomain(qlast.pvalue) /\ InDomain(qlast.value)
     /\ ~RatLess(qlast.value, qlast.pvalue))
    => qlast.pcode <= qlast.code

\* C13: with minimum = 0, maximum = 1 and a 16-bit IT, signed or unsigned,
\* to_fpq gives 0 for minimum and everything below it, 2^16 - 1 for maximum
\* and everything above it, and 2^15 for the midpoint 0.5.
C13_SixteenBitCodes ==
    (/\ qlast.op = "to_fpq"
     /\ Bits(q.IT) = 16
     /\ q.minimum_value = Rat(0, 1) /\ q.maximum_value = Rat(1, 1))
    => (/\ ~RatLess(q.minimum_value, qlast.value) => qlast.code = 0
        /\ ~RatLess(qlast.value, q.maximum_value) => qlast.code = 2 ^ 16 - 1
        /\ qlast.value = Rat(1, 2) => qlast.code = 2 ^ 15)

\* C14: to_fpq undoes from_fpq: for every domain and every code c in
\* [0, 2^Bits - 1], to_fpq(from_fpq(c)) = c, the arithmetic being exact.
C14_EncodeDecode ==
    (/\ qlast.op = "to_fpq" /\ qlast.pop = "from_fpq"
     /\ qlast.value = qlast.pvalue
     /\ qlast.pcode \in 0 .. 2 ^ Bits(q.IT) - 1)
    => qlast.code = qlast.pcode

====
